---- MODULE Spec2Model ----
(***************************************************************************)
(* Model of src/divisor.rs: divisors f(x,y) = A(x) - y B(x) of an elliptic *)
(* curve y^2 = x^3 + ax + b, with A and B kept as evaluation tables over   *)
(* the sample domain 0, 1, 2, ... of a prime field, their multiplication   *)
(* (general and by a one-point SmallDivisor), the removal of two roots by  *)
(* pointwise division, and merge.                                          *)
(*                                                                         *)
(* Sample i of the code (0-based) is element i + 1 of a TLA+ sequence.     *)
(***************************************************************************)
EXTENDS Integers, Sequences, FiniteSets, TLC

\* The prime field F: PrimeField, instantiated with the integers modulo 7.
P == 7

\* Number of samples of a full-length table.
N == 5

\* Number of operations a run applies.
MaxSteps == 2

\* usize arithmetic wraps modulo 2^64 in a release build; the modulus is
\* scaled to 2^29 so that every intermediate sum stays in TLC's
\* integer range. Only "a sum reached the modulus" and "a difference went
\* below zero" are observed, and those do not depend on the scale.
UsizeModulus == 2^29

VARIABLES
    d,          \* the divisor the driver holds (left operand, then the result)
    modTables,  \* the shared modulus tables (Rc<Evals<F>>), by handle
    debug,      \* TRUE: built with debug assertions and overflow checks
    status,     \* "ok", or "panicked" once an operation has aborted
    hist        \* the operations applied so far, with their operands

vars == <<d, modTables, debug, status, hist>>

-----------------------------------------------------------------------------
(* Field arithmetic of F *)

FAdd(x, y) == (x + y) % P
FSub(x, y) == (x - y + P) % P
FMul(x, y) == (x * y) % P
FromU64(i) == i % P

RECURSIVE FPow(_, _)
FPow(x, e) == IF e = 0 THEN 1 ELSE FMul(x, FPow(x, e - 1))

\* Field::invert of a non-zero element.
FInvert(x) == FPow(x, P - 2)

Max(x, y) == IF x >= y THEN x ELSE y

-----------------------------------------------------------------------------
(* ff::BatchInverter::invert_with_external_scratch: Montgomery's trick.     *)
(* The forward pass stores in scratch[i] the product of the non-zero        *)
(* elements before i; the running product is inverted once; the backward    *)
(* pass gives element i the value scratch[i] * acc, where acc is the        *)
(* inverse of the product of the non-zero elements up to i. A zero element  *)
(* is skipped in both passes and stays zero.                                *)

RECURSIVE ForwardAcc(_, _)
ForwardAcc(elements, i) ==
    IF i = 0 THEN 1
    ELSE LET acc == ForwardAcc(elements, i - 1)
         IN  IF elements[i] = 0 THEN acc ELSE FMul(acc, elements[i])

RECURSIVE BackwardAcc(_, _)
BackwardAcc(elements, i) ==
    IF i = Len(elements) THEN FInvert(ForwardAcc(elements, Len(elements)))
    ELSE LET acc == BackwardAcc(elements, i + 1)
         IN  IF elements[i + 1] = 0 THEN acc ELSE FMul(acc, elements[i + 1])

BatchInvertIdentity(elements) == elements

BatchInvert(elements) ==
    [i \in 1..Len(elements) |->
        IF elements[i] = 0 THEN 0
        ELSE FMul(ForwardAcc(elements, i - 1), BackwardAcc(elements, i))]

-----------------------------------------------------------------------------
(* Results of an operation: the divisor it returns, or a panic. *)

Return(v) == [ok |-> TRUE, d |-> v]
Panic(v) == [ok |-> FALSE, d |-> v]

Overflows(x) == x >= UsizeModulus
Wrap(x) == x % UsizeModulus

-----------------------------------------------------------------------------
(* Divisor::new_degree *)

new_degree(self, other) ==
    LET a1 == self.a.degree
        b1 == self.b.degree
        a2 == other.a.degree
        b2 == other.b.degree
    IN  [a |-> Max(Wrap(a1 + a2), Wrap(Wrap(3 + b1) + b2)),
         b |-> Max(Wrap(a1 + b2), Wrap(a2 + b1)),
         overflow |-> \/ Overflows(a1 + a2)
                      \/ Overflows(3 + b1)
                      \/ Overflows(Wrap(3 + b1) + b2)
                      \/ Overflows(a1 + b2)
                      \/ Overflows(a2 + b1)]

-----------------------------------------------------------------------------
(* impl Mul<&Self> for Divisor *)

MulStepNoModulus(a1, b1, a2, b2, modulus) ==
    LET a1a2 == FMul(a1, a2)
        b1b2 == FMul(b1, b2)
        cross == FMul(FAdd(a1, b1), FAdd(a2, b2))
    IN  <<FAdd(a1a2, b1b2), FSub(cross, FAdd(a1a2, b1b2))>>

\* The body of the loop: <<new a1, new b1>>.
MulStep(a1, b1, a2, b2, modulus) ==
    LET a1a2 == FMul(a1, a2)
        b1b2 == FMul(b1, b2)
        cross == FMul(FAdd(a1, b1), FAdd(a2, b2))
        b == FSub(cross, FAdd(a1a2, b1b2))
        a == FAdd(a1a2, FMul(b1b2, modulus))
    IN  <<a, b>>

DivisorMulBody(self, rhs, modulusOf) ==
    LET len == Len(self.a.evals)
        m == modTables[self.modulus].evals
        nd == new_degree(self, rhs)
        lensEqual == /\ Len(self.a.evals) = Len(rhs.a.evals)
                     /\ Len(self.b.evals) = Len(rhs.b.evals)
                     /\ Len(self.a.evals) = Len(self.b.evals)
        inBounds == /\ Len(m) >= len
                    /\ Len(self.b.evals) >= len
                    /\ Len(rhs.a.evals) >= len
                    /\ Len(rhs.b.evals) >= len
        step(i) == MulStep(self.a.evals[i], self.b.evals[i],
                           rhs.a.evals[i], rhs.b.evals[i], m[i])
    IN  IF (debug /\ ~lensEqual) \/ (debug /\ nd.overflow) \/ ~inBounds
        THEN Panic(self)
        ELSE Return([a |-> [evals |-> [i \in 1..len |-> step(i)[1]],
                            degree |-> nd.a],
                     b |-> [evals |-> [i \in 1..Len(self.b.evals) |->
                                          IF i <= len THEN step(i)[2]
                                          ELSE self.b.evals[i]],
                            degree |-> nd.b],
                     modulus |-> modulusOf])

DivisorMulRhsModulus(self, rhs) == DivisorMulBody(self, rhs, rhs.modulus)

DivisorMul(self, rhs) == DivisorMulBody(self, rhs, self.modulus)

-----------------------------------------------------------------------------
(* impl Mul<SmallDivisor<F>> for Divisor *)

\* a2 when sample i is processed, incremented before use.
RECURSIVE SmallA2Early(_, _)
SmallA2Early(small, i) ==
    IF i = 0 THEN FAdd(small.a[2], small.a[1])
    ELSE FAdd(SmallA2Early(small, i - 1), small.a[1])

\* a2 when sample i is processed: rhs.a.1, then a2 += rhs.a.0 per sample.
RECURSIVE SmallA2(_, _)
SmallA2(small, i) ==
    IF i = 0 THEN small.a[2] ELSE FAdd(SmallA2(small, i - 1), small.a[1])

SmallMulStep(a1, b1, a2, b2, modulus) ==
    LET a1a2 == FMul(a1, a2)
        b1b2 == FMul(b1, b2)
        cross == FMul(FAdd(a1, b1), FAdd(a2, b2))
        b == FSub(cross, FAdd(a1a2, b1b2))
        a == FAdd(a1a2, FMul(b1b2, modulus))
    IN  <<a, b>>

\* The degree update: da and db are both read from self.a.degree.
SmallMulDegree(self) ==
    LET da == self.a.degree
        db == self.a.degree
    IN  [a |-> Max(da, Wrap(db + 3)),
         b |-> Max(da, Wrap(1 + db)),
         overflow |-> Overflows(db + 3) \/ Overflows(1 + db)]

DivisorMulSmall(self, rhs) ==
    LET len == Len(self.a.evals)
        m == modTables[self.modulus].evals
        nd == SmallMulDegree(self)
        inBounds == Len(m) >= len /\ Len(self.b.evals) >= len
        step(i) == SmallMulStep(self.a.evals[i], self.b.evals[i],
                                SmallA2(rhs, i - 1), rhs.b, m[i])
    IN  IF (debug /\ Len(self.a.evals) # Len(self.b.evals))
           \/ (debug /\ nd.overflow) \/ ~inBounds
        THEN Panic(self)
        ELSE Return([a |-> [evals |-> [i \in 1..len |-> step(i)[1]],
                            degree |-> nd.a],
                     b |-> [evals |-> [i \in 1..Len(self.b.evals) |->
                                          IF i <= len THEN step(i)[2]
                                          ELSE self.b.evals[i]],
                            degree |-> nd.b],
                     modulus |-> self.modulus])

-----------------------------------------------------------------------------
(* impl Div<Evals<F>> for Divisor *)

DivisorDivBody(self, rhs, bDrop) ==
    LET len == Len(rhs.evals)
        inv == BatchInvert(rhs.evals)
        lensEqual == /\ Len(self.a.evals) = Len(self.b.evals)
                     /\ Len(self.a.evals) = len
        inBounds == Len(self.a.evals) >= len /\ Len(self.b.evals) >= len
        underflow == self.a.degree < rhs.degree \/ self.b.degree < bDrop
    IN  IF (debug /\ ~lensEqual) \/ ~inBounds \/ (debug /\ underflow)
        THEN Panic(self)
        ELSE Return([a |-> [evals |-> [i \in 1..Len(self.a.evals) |->
                                          IF i <= len
                                          THEN FMul(self.a.evals[i], inv[i])
                                          ELSE self.a.evals[i]],
                            degree |-> Wrap(self.a.degree - rhs.degree
                                            + UsizeModulus)],
                     b |-> [evals |-> [i \in 1..Len(self.b.evals) |->
                                          IF i <= len
                                          THEN FMul(self.b.evals[i], inv[i])
                                          ELSE self.b.evals[i]],
                            degree |-> Wrap(self.b.degree - bDrop
                                            + UsizeModulus)],
                     modulus |-> self.modulus])

DivisorDivKeepsB(self, rhs) == DivisorDivBody(self, rhs, 0)

DivisorDiv(self, rhs) == DivisorDivBody(self, rhs, rhs.degree)

-----------------------------------------------------------------------------
(* Divisor::remove_diff *)

\* (x - x1) * (x - x2) at sample i (0-based), x = F::from(i as u64).
Denominator(i, x1, x2) == FMul(FSub(FromU64(i), x1), FSub(FromU64(i), x2))

remove_diff(self, x1, x2) ==
    IF Len(self.a.evals) # Len(self.b.evals)
    THEN Panic(self)
    ELSE DivisorDiv(self,
                    [evals |-> [i \in 1..Len(self.a.evals) |->
                                   Denominator(i - 1, x1, x2)],
                     degree |-> 2])

-----------------------------------------------------------------------------
(* Divisor::merge *)

mergeWithoutSmall(d1, d2, small, denom) ==
    LET numerator == DivisorMul(d1, d2)
    IN  IF ~numerator.ok THEN numerator
        ELSE remove_diff(numerator.d, denom[1], denom[2])

merge(d1, d2, small, denom) ==
    LET numerator == DivisorMul(d1, d2)
    IN  IF ~numerator.ok THEN numerator
        ELSE LET numerator2 == DivisorMulSmall(numerator.d, small)
             IN  IF ~numerator2.ok THEN numerator2
                 ELSE remove_diff(numerator2.d, denom[1], denom[2])

-----------------------------------------------------------------------------
(* The operands a driver supplies. *)

\* A polynomial c[1] + c[2] x + c[3] x^2 + ... at x (Horner).
RECURSIVE PolyEval(_, _)
PolyEval(c, x) ==
    IF Len(c) = 0 THEN 0 ELSE FAdd(c[1], FMul(x, PolyEval(Tail(c), x)))

\* Evals of the polynomial c on samples 0 .. len-1, with degree bound Len(c)-1.
Table(c, len) ==
    [evals |-> [i \in 1..len |-> PolyEval(c, FromU64(i - 1))],
     degree |-> Len(c) - 1]

\* The modulus tables: x^3 + 2x + 3 on the full domain, and x^3 + x + 1
\* on a domain one sample longer.
ModulusTables ==
    [h \in 1..2 |-> IF h = 1 THEN Table(<<3, 2, 0, 1>>, N)
                    ELSE Table(<<1, 1, 0, 1>>, N + 1)]

\* Two divisors on the full domain, one of another curve context on a
\* shorter domain, and one whose B table is longer than its A table.
Seeds ==
    { [a |-> Table(<<0, 1>>, N), b |-> Table(<<1>>, N), modulus |-> 1],
      [a |-> Table(<<1>>, N), b |-> Table(<<0, 1>>, N), modulus |-> 1],
      [a |-> Table(<<1, 0, 1>>, N - 1), b |-> Table(<<2, 1>>, N - 1),
       modulus |-> 2],
      [a |-> Table(<<3, 1>>, N), b |-> Table(<<2>>, N + 1), modulus |-> 1] }

\* SmallDivisor::new((slope, intercept), b)
Smalls == { [a |-> <<1, 6>>, b |-> 1], [a |-> <<3, 2>>, b |-> 2] }

\* Pairs of roots to remove: both among the samples, and (while N <= 5)
\* both outside them.
RootPairs == { <<1, 4>>, <<5, 6>> }

\* The divisor (x - x1)(x - x2) - y * 0.
DenomDivisor(x1, x2) ==
    [a |-> [evals |-> [i \in 1..N |-> Denominator(i - 1, x1, x2)], degree |-> 2],
     b |-> Table(<<0>>, N),
     modulus |-> 1]

\* Placeholders in the log of an operation that takes no such operand.
NoDivisor ==
    [a |-> [evals |-> <<>>, degree |-> 0],
     b |-> [evals |-> <<>>, degree |-> 0],
     modulus |-> 0]
NoSmall == [a |-> <<0, 0>>, b |-> 0]

-----------------------------------------------------------------------------
(* The state machine *)

Init ==
    /\ d \in Seeds
    /\ modTables = ModulusTables
    /\ debug \in BOOLEAN
    /\ status = "ok"
    /\ hist = <<>>

CanStep == status = "ok" /\ Len(hist) < MaxSteps

Apply(op, res, rhs, small, denom) ==
    /\ hist' = Append(hist, [op |-> op, pre |-> d, rhs |-> rhs,
                             small |-> small, x1 |-> denom[1],
                             x2 |-> denom[2]])
    /\ d' = IF res.ok THEN res.d ELSE d
    /\ status' = IF res.ok THEN "ok" ELSE "panicked"
    /\ UNCHANGED <<modTables, debug>>

Mul ==
    /\ CanStep
    /\ \E rhs \in Seeds \cup {DenomDivisor(r[1], r[2]) : r \in RootPairs} :
          Apply("mul", DivisorMul(d, rhs), rhs, NoSmall, <<0, 0>>)

MulSmall ==
    /\ CanStep
    /\ \E small \in Smalls :
          Apply("mul_small", DivisorMulSmall(d, small), NoDivisor, small,
                <<0, 0>>)

RemoveDiff ==
    /\ CanStep
    /\ \E r \in RootPairs :
          Apply("remove_diff", remove_diff(d, r[1], r[2]), NoDivisor,
                NoSmall, r)

Merge ==
    /\ CanStep
    /\ \E d2 \in Seeds, small \in Smalls, r \in RootPairs :
          Apply("merge", merge(d, d2, small, r), d2, small, r)

Next == Mul \/ MulSmall \/ RemoveDiff \/ Merge

Spec == Init /\ [][Next]_vars

-----------------------------------------------------------------------------
(* Vocabulary of the properties *)

Last == hist[Len(hist)]

\* The operation op was the last one applied, and it returned a divisor.
Acted(op) == Len(hist) > 0 /\ status = "ok" /\ Last.op = op

Samples(t) == 1..Len(t.evals)

\* Forward differences of a table.
Diff(t) == [i \in 1..(Len(t) - 1) |-> (t[i + 1] - t[i] + P) % P]

\* Degree of the polynomial of degree < Len(t) that interpolates the table t
\* on the samples 0 .. Len(t)-1 (Len(t) <= P): the index of the last
\* non-zero Newton coefficient, the k-th being the k-th forward difference
\* at sample 0. The zero polynomial has degree -1 here.
RECURSIVE NewtonDeg(_, _)
NewtonDeg(t, k) ==
    IF Len(t) = 0 THEN -1
    ELSE LET higher == NewtonDeg(Diff(t), k + 1)
         IN  IF higher >= 0 THEN higher ELSE IF t[1] # 0 THEN k ELSE -1

InterpDeg(t) == NewtonDeg(t, 0)

\* All tables an operation reads have one length.
LensMatch(h) ==
    LET len == Len(h.pre.a.evals)
    IN  /\ Len(h.pre.b.evals) = len
        /\ Len(modTables[h.pre.modulus].evals) = len
        /\ h.op \in {"mul", "merge"} =>
              Len(h.rhs.a.evals) = len /\ Len(h.rhs.b.evals) = len

-----------------------------------------------------------------------------
(* C1: general multiplication of two divisors of equal table length sharing *)
(* one modulus table m writes, at every sample i,                           *)
(*   A'[i] = A1[i] A2[i] + m[i] B1[i] B2[i]  and                            *)
(*   B'[i] = A1[i] B2[i] + A2[i] B1[i]  in the field.                       *)

C1_Applies ==
    /\ Acted("mul")
    /\ LensMatch(Last)
    /\ Last.rhs.modulus = Last.pre.modulus

C1_MulPointwise ==
    C1_Applies =>
        LET A1 == Last.pre.a.evals
            B1 == Last.pre.b.evals
            A2 == Last.rhs.a.evals
            B2 == Last.rhs.b.evals
            m == modTables[Last.pre.modulus].evals
        IN  /\ Len(d.a.evals) = Len(A1) /\ Len(d.b.evals) = Len(A1)
            /\ \A i \in 1..Len(A1) :
                  /\ d.a.evals[i] = (A1[i] * A2[i] + m[i] * B1[i] * B2[i]) % P
                  /\ d.b.evals[i] = (A1[i] * B2[i] + A2[i] * B1[i]) % P

\* A product on a domain of exactly degree + 1 samples, in which the
\* modulus term and the cross term are both non-zero at some sample.
C1_Witness ==
    /\ C1_Applies
    /\ d.a.degree + 1 = Len(d.a.evals)
    /\ \E i \in Samples(d.a) :
          /\ (modTables[Last.pre.modulus].evals[i] * Last.pre.b.evals[i]
                 * Last.rhs.b.evals[i]) % P # 0
          /\ d.b.evals[i] # 0

-----------------------------------------------------------------------------
(* C2: degree bounds are never underestimates: after any sequence of        *)
(* multiplications and exact divisions from divisors whose tables sample    *)
(* polynomials of degree <= their bound, the polynomial each table          *)
(* represents (its interpolant) has degree <= the table's tracked bound.    *)

\* The divisor that step k returned (every step before the last returned).
PostOf(k) == IF k = Len(hist) THEN d ELSE hist[k + 1].pre

\* The dividend of the division in step k.
NumeratorOf(k) ==
    IF hist[k].op = "merge"
    THEN DivisorMulSmall(DivisorMul(hist[k].pre, hist[k].rhs).d,
                         hist[k].small).d
    ELSE hist[k].pre

\* The division of step k was exact: the dividend is the product of the
\* denominator and a polynomial of degree two less, which the quotient
\* tables sample.
ExactStep(k) ==
    LET num == NumeratorOf(k)
        q == PostOf(k)
    IN  /\ \A i \in Samples(q.a) :
              (q.a.evals[i] * Denominator(i - 1, hist[k].x1, hist[k].x2)) % P
                  = num.a.evals[i]
        /\ \A i \in Samples(q.b) :
              (q.b.evals[i] * Denominator(i - 1, hist[k].x1, hist[k].x2)) % P
                  = num.b.evals[i]
        /\ InterpDeg(q.a.evals) + 2 < Len(q.a.evals)
        /\ InterpDeg(q.b.evals) + 2 < Len(q.b.evals)

AllDivisionsExact ==
    \A k \in 1..Len(hist) :
        hist[k].op \in {"remove_diff", "merge"} => ExactStep(k)

\* Every operation so far was applied to tables of one length.
AllLensMatch == \A k \in 1..Len(hist) : LensMatch(hist[k])

C2_DegreeNeverUnderestimates ==
    (status = "ok" /\ AllLensMatch /\ AllDivisionsExact) =>
        /\ InterpDeg(d.a.evals) <= d.a.degree
        /\ InterpDeg(d.b.evals) <= d.b.degree

-----------------------------------------------------------------------------
(* C3: mixed multiplication of a divisor with degree bounds (da, db) sets   *)
(* the A bound to max(da, db + 3) and the B bound to max(da, db + 1).       *)

C3_SmallMulDegrees ==
    Acted("mul_small") =>
        /\ d.a.degree = Max(Last.pre.a.degree, Last.pre.b.degree + 3)
        /\ d.b.degree = Max(Last.pre.a.degree, Last.pre.b.degree + 1)

-----------------------------------------------------------------------------
(* C4: every table of a returned divisor has degree < number of samples.    *)

C4_DegreeBelowLen ==
    status = "ok" =>
        /\ d.a.degree < Len(d.a.evals)
        /\ d.b.degree < Len(d.b.evals)

-----------------------------------------------------------------------------
(* C5: division by two roots undoes multiplication by the same denominator: *)
(* after multiplying the A and B samples of a divisor by (i - x1)(i - x2)   *)
(* and removing the roots x1, x2, the tables equal the original ones.       *)

\* The last two operations: a multiplication by the divisor
\* (x - x1)(x - x2) - y * 0, which multiplies every A and B sample by the
\* denominator, and then remove_diff(x1, x2).
C5_RoundTrip ==
    /\ Len(hist) >= 2
    /\ Acted("remove_diff")
    /\ hist[Len(hist) - 1].op = "mul"
    /\ hist[Len(hist) - 1].rhs = DenomDivisor(Last.x1, Last.x2)

C5_Original == hist[Len(hist) - 1].pre

\* C5 as stated: equal on all samples, for every pair of roots.
C5_DivideInvertsOnAllSamples ==
    C5_RoundTrip =>
        /\ d.a.evals = C5_Original.a.evals
        /\ d.b.evals = C5_Original.b.evals

\* C5 amended: equal on every sample that is neither x1 nor x2; at a sample
\* equal to x1 or x2 the returned A and B values are zero.
C5_DivideInvertsOffRoots ==
    C5_RoundTrip =>
        /\ Len(d.a.evals) = Len(C5_Original.a.evals)
        /\ Len(d.b.evals) = Len(C5_Original.b.evals)
        /\ \A i \in Samples(d.a) :
              IF Denominator(i - 1, Last.x1, Last.x2) # 0
              THEN /\ d.a.evals[i] = C5_Original.a.evals[i]
                   /\ d.b.evals[i] = C5_Original.b.evals[i]
              ELSE d.a.evals[i] = 0 /\ d.b.evals[i] = 0

\* A round trip with a root among the samples where the original divisor
\* does not vanish, and another sample where the denominator is non-zero
\* and the original value is restored.
C5_Witness ==
    /\ C5_RoundTrip
    /\ \E i \in Samples(d.a) :
          /\ Denominator(i - 1, Last.x1, Last.x2) = 0
          /\ C5_Original.a.evals[i] # 0
    /\ \E i \in Samples(d.a) :
          /\ Denominator(i - 1, Last.x1, Last.x2) \notin {0, 1}
          /\ d.a.evals[i] # 0

-----------------------------------------------------------------------------
(* C6: an operation invoked with mismatched table lengths, or with a domain *)
(* not larger than the resulting degree bound, panics instead of returning. *)

C6_ViolationsPanic ==
    (Len(hist) > 0 /\ status = "ok") =>
        /\ LensMatch(Last)
        /\ Len(d.a.evals) > d.a.degree
        /\ Len(d.b.evals) > d.b.degree

-----------------------------------------------------------------------------
(* C7: merge([d1, d2], small, (x1, x2)) returns d1 * d2 * small with the    *)
(* roots removed: at every sample i that is neither x1 nor x2,              *)
(*   A_out[i] (i - x1)(i - x2) = A_P[i],  B_out[i] (i - x1)(i - x2) = B_P[i]*)
(* where (A_P, B_P) is the (A, B) form of the triple product under y^2 = m. *)

\* <<A_P, B_P>> at element i of the tables.
TripleProduct(d1, d2, small, i) ==
    LET m == modTables[d1.modulus].evals[i]
        a1 == d1.a.evals[i]
        b1 == d1.b.evals[i]
        a2 == d2.a.evals[i]
        b2 == d2.b.evals[i]
        a12 == (a1 * a2 + m * b1 * b2) % P
        b12 == (a1 * b2 + a2 * b1) % P
        a3 == (small.a[2] + small.a[1] * (i - 1)) % P
        b3 == small.b
    IN  <<(a12 * a3 + m * b12 * b3) % P, (a12 * b3 + a3 * b12) % P>>

C7_MergeIsQuotientOfTripleProduct ==
    Acted("merge") =>
        /\ Len(d.a.evals) = Len(Last.pre.a.evals)
        /\ Len(d.b.evals) = Len(Last.pre.a.evals)
        /\ \A i \in Samples(d.a) :
              LET den == Denominator(i - 1, Last.x1, Last.x2)
                  prod == TripleProduct(Last.pre, Last.rhs, Last.small, i)
              IN  den # 0 =>
                      /\ (d.a.evals[i] * den) % P = prod[1]
                      /\ (d.b.evals[i] * den) % P = prod[2]

\* A merge whose triple product is non-zero in A and in B at a sample
\* where the denominator is neither zero nor one.
C7_Witness ==
    /\ Acted("merge")
    /\ \E i \in Samples(d.a) :
          /\ Denominator(i - 1, Last.x1, Last.x2) \notin {0, 1}
          /\ TripleProduct(Last.pre, Last.rhs, Last.small, i)[1] # 0
          /\ TripleProduct(Last.pre, Last.rhs, Last.small, i)[2] # 0

-----------------------------------------------------------------------------
(* C8: removing two roots from a divisor whose A and B degree bounds are    *)
(* both at least 2 decreases each bound by exactly 2, without wrap-around.  *)

C8_Applies ==
    /\ Acted("remove_diff")
    /\ Last.pre.a.degree >= 2
    /\ Last.pre.b.degree >= 2

C8_DivisionDropsDegreeByTwo ==
    C8_Applies =>
        /\ d.a.degree = Last.pre.a.degree - 2
        /\ d.b.degree = Last.pre.b.degree - 2
        /\ d.a.degree >= 0 /\ d.a.degree < Last.pre.a.degree
        /\ d.b.degree >= 0 /\ d.b.degree < Last.pre.b.degree

\* A division of a divisor with different A and B bounds, one of them 2.
C8_Witness ==
    /\ C8_Applies
    /\ Last.pre.a.degree # Last.pre.b.degree
    /\ d.b.degree = 0

-----------------------------------------------------------------------------
(* C9: no operation changes the modulus tables; a returned divisor refers   *)
(* to the modulus table of its left input, and its A and B tables keep      *)
(* their lengths.                                                           *)

C9_ModulusReadOnly ==
    [][/\ modTables' = modTables
       /\ status' = "ok" =>
             /\ d'.modulus = d.modulus
             /\ modTables'[d'.modulus] = modTables[d.modulus]
             /\ Len(d'.a.evals) = Len(d.a.evals)
             /\ Len(d'.b.evals) = Len(d.b.evals)]_vars

\* A multiplication, and a merge, by a divisor that refers to another
\* modulus table than the left operand.
C9_Witness ==
    /\ Len(hist) >= 2
    /\ status = "ok"
    /\ hist[1].op = "mul" /\ hist[1].rhs.modulus # hist[1].pre.modulus
    /\ hist[2].op = "merge" /\ hist[2].rhs.modulus # hist[2].pre.modulus
    /\ d # hist[2].pre

-----------------------------------------------------------------------------
(* C10: mixed multiplication by the linear divisor (slope, intercept, b)    *)
(* writes the sample values that general multiplication writes for the      *)
(* table A2[i] = intercept + slope * i, B2[i] = b.                          *)

C10_SmallMulMatchesTable ==
    Acted("mul_small") =>
        /\ Len(d.a.evals) = Len(Last.pre.a.evals)
        /\ \A i \in Samples(d.a) :
              LET A2 == FAdd(Last.small.a[2],
                             FMul(Last.small.a[1], FromU64(i - 1)))
                  general == MulStep(Last.pre.a.evals[i], Last.pre.b.evals[i],
                                     A2, Last.small.b,
                                     modTables[Last.pre.modulus].evals[i])
              IN  d.a.evals[i] = general[1] /\ d.b.evals[i] = general[2]

\* A mixed multiplication with a non-zero slope whose result is non-zero
\* at the last sample.
C10_Witness ==
    /\ Acted("mul_small")
    /\ Last.small.a[1] # 0
    /\ d.a.evals[Len(d.a.evals)] # 0
    /\ d.b.evals[Len(d.a.evals)] # 0

====
